---------------------------- MODULE Spec2Model ----------------------------
(***************************************************************************)
(* A model of lib/easy-test.js (EasyTest): the shape checker looksLike,    *)
(* the adapters testScope / testController / testService that delegate to  *)
(* it, and the injection helpers injectify / getService.                   *)
(*                                                                         *)
(* JavaScript values are records [typeof, value, str, members]:            *)
(*   typeof   the result of the typeof operator on the value               *)
(*   value    the number, for a number primitive                           *)
(*   str      the text, for a string primitive                             *)
(*   members  for an object, the function from the names `in` finds on it  *)
(*            to the typeof of each member                                 *)
(* A string of the specification mini-language is a sequence of one        *)
(* character strings, so that split(' ') is computed and not assumed.      *)
(***************************************************************************)
EXTENDS Integers, Sequences, FiniteSets

VARIABLES
    object,       \* the subject handed to looksLike
    spec,         \* the specification: own property names in order, each with its string
    ret,          \* what the latest looksLike(object, spec) gave, or NotCalled
    calls,        \* how many times looksLike(object, spec) was called
    services,     \* the injector: service name -> instance
    controllers,  \* the injector: controller name -> the instance $controller builds
    last          \* the latest call of an adapter or injection helper, and its outcome

vars == <<object, spec, ret, calls, services, controllers, last>>

-----------------------------------------------------------------------------
(* Bounds of the model. *)

\* The characters a specification string holds, summed over the whole spec.
MaxChars == 4

\* The calls of looksLike on the same subject and specification.
MaxCalls == 2

\* The names one injectify call lists.
MaxNames == 2

\* The characters the strings of an adapter run's specification hold.
MaxAdapterChars == 1

-----------------------------------------------------------------------------
(* Values. *)

Space == " "

Chars == {"a", "b", Space}

\* The typeof results the members of a subject have.
Tags == {"function", "number"}

\* The own property names a specification has.
Types == {"function", "number"}

EmptyName == <<>>

MemberNames == {EmptyName, <<"a">>, <<"b">>}

NoMembers == [n \in {} |-> "undefined"]

Obj(members) == [typeof |-> "object", value |-> 0, str |-> "", members |-> members]

Num(n) == [typeof |-> "number", value |-> n, str |-> "", members |-> NoMembers]

Str(s) == [typeof |-> "string", value |-> 0, str |-> s, members |-> NoMembers]

Undefined == [typeof |-> "undefined", value |-> 0, str |-> "", members |-> NoMembers]

ObjectsOver(names) == {Obj(m) : m \in UNION {[D -> Tags] : D \in SUBSET names}}

\* Everything a caller can hand over as a subject: objects, and values that are not.
SubjectsOver(names) == ObjectsOver(names) \cup {Num(3), Undefined}

Subjects == SubjectsOver(MemberNames)

Strings(n) == UNION {[1..k -> Chars] : k \in 0..n}

Entry(type, properties) == [type |-> type, properties |-> properties]

\* An object's own property names are distinct, so a spec over Types has at most
\* one entry per type; the order is the order of the own property names.
SpecsUpTo(n) ==
    {<<>>}
    \cup {<<Entry(t, s)>> : t \in Types, s \in Strings(n)}
    \cup {<<Entry(e[1], e[3]), Entry(e[2], e[4])>> :
            e \in {x \in Types \X Types \X Strings(n) \X Strings(n) :
                     x[1] # x[2] /\ Len(x[3]) + Len(x[4]) <= n}}

Specs == SpecsUpTo(MaxChars)

-----------------------------------------------------------------------------
(* Outcomes of a call: a returned value or a thrown error. *)

NoMessage == [prefix |-> "", property |-> EmptyName, infix |-> "", type |-> "", suffix |-> ""]

NotCalled == [how |-> "none", name |-> "", message |-> NoMessage]

\* Falling off the end of looksLike: the call returns undefined.
ReturnUndefined == [how |-> "return", name |-> "undefined", message |-> NoMessage]

\* `property in object` with an object that is not an object.
ThrowTypeError == [how |-> "throw", name |-> "TypeError", message |-> NoMessage]

\* Setting the length of an array to a value that is no array length.
ThrowRangeError == [how |-> "throw", name |-> "RangeError", message |-> NoMessage]

\* throw in place of return
ThrowMissing(property) ==
    [how |-> "throw", name |-> "Error",
     message |-> [prefix |-> "Expected object to have the property '",
                  property |-> property, infix |-> "", type |-> "", suffix |-> "'."]]

\* return new Error('Expected object to have the property \'' + property + '\'.')
ReturnMissing(property) ==
    [how |-> "return", name |-> "Error",
     message |-> [prefix |-> "Expected object to have the property '",
                  property |-> property, infix |-> "", type |-> "", suffix |-> "'."]]

\* return new Error('Expected property \'' + property + '\' to be of type ' + type + '.')
ReturnWrongType(property, type) ==
    [how |-> "return", name |-> "Error",
     message |-> [prefix |-> "Expected property '", property |-> property,
                  infix |-> "' to be of type ", type |-> type, suffix |-> "."]]

-----------------------------------------------------------------------------
(* looksLike. *)

\* String.prototype.split(' '): cut at every single space, keeping empty pieces.
RECURSIVE SplitFrom(_, _, _)
SplitFrom(s, i, piece) ==
    IF i > Len(s) THEN <<piece>>
    ELSE IF s[i] = Space THEN <<piece>> \o SplitFrom(s, i + 1, <<>>)
    ELSE SplitFrom(s, i + 1, Append(piece, s[i]))

\* Cutting at runs of spaces instead: no empty pieces.
SplitDroppingEmpty(s) ==
    LET nonEmpty(p) == p # <<>> IN
    SelectSeq(SplitFrom(s, 1, <<>>), nonEmpty)

\* spec[type].split(' ')
split(s) == SplitFrom(s, 1, <<>>)

\* The membership test left out.
HasPropertyAlways(o, property) == TRUE

\* property in object
HasProperty(o, property) == property \in DOMAIN o.members

\* typeof object[property]; a property the object has not reads undefined
TypeOf(o, property) ==
    IF property \in DOMAIN o.members THEN o.members[property] ELSE "undefined"

\* The typeof test left out.
TypeDiffersNever(o, property, type) == FALSE

\* typeof object[property] !== type
TypeDiffers(o, property, type) == TypeOf(o, property) # type

\* The two loops of looksLike from (i, y) on, indices from 1.
RECURSIVE looksLikeFrom(_, _, _, _)
looksLikeFrom(o, sp, i, y) ==
    IF i > Len(sp) THEN ReturnUndefined
    ELSE
        LET type == sp[i].type
            properties == split(sp[i].properties)
        IN  IF y > Len(properties) THEN looksLikeFrom(o, sp, i + 1, 1)
            ELSE
                LET property == properties[y] IN
                IF o.typeof # "object" THEN ThrowTypeError
                ELSE IF ~HasProperty(o, property) THEN ReturnMissing(property)
                ELSE IF TypeDiffers(o, property, type) THEN ReturnWrongType(property, type)
                ELSE looksLikeFrom(o, sp, i, y + 1)

Reverse(s) == [k \in 1..Len(s) |-> s[Len(s) + 1 - k]]

\* for (i = types.length - 1; i >= 0; i--)
looksLikeBackwards(o, sp) == looksLikeFrom(o, Reverse(sp), 1, 1)

\* A return placed after the inner loop: only the first type is checked.
looksLikeFirstTypeOnly(o, sp) ==
    looksLikeFrom(o, IF sp = <<>> THEN sp ELSE <<sp[1]>>, 1, 1)

\* for (i = 0; i <= types.length; ...): spec[undefined].split throws
looksLikeOneTooFar(o, sp) ==
    LET r == looksLikeFrom(o, sp, 1, 1) IN
    IF r = ReturnUndefined THEN ThrowTypeError ELSE r

\* looksLike(object, spec): both loops from their first index.
looksLike(o, sp) == looksLikeFrom(o, sp, 1, 1)

-----------------------------------------------------------------------------
(* The injector, and the helpers that go through it. *)

ServiceNames == {"MyService", "length"}

ControllerNames == {"MyController"}

\* What a service or a controller is: an object, or (a constant) a number.
Instances == ObjectsOver({<<"a">>}) \cup {Num(3)}

\* What an adapter is handed in place of a name.
AdapterSubjects == SubjectsOver({<<"a">>})

\* var obj = []: an array, with its length and the properties put on it.
EmptyArray == [length |-> 0, props |-> [n \in {} |-> Undefined]]

\* obj[name] = v on an array: a name other than length becomes a property; length
\* takes an array length (a number) and nothing else.
ArrayPutThrows(arr, name, v) == name = "length" /\ v.typeof # "number"

ArrayPut(arr, name, v) ==
    IF name = "length" THEN [arr EXCEPT !.length = v.value]
    ELSE [arr EXCEPT !.props = [n \in DOMAIN @ \cup {name} |->
                                   IF n = name THEN v ELSE @[n]]]

\* name in obj
ArrayHas(arr, name) == name = "length" \/ name \in DOMAIN arr.props

\* obj[name]
ArrayGet(arr, name) ==
    IF name = "length" THEN Num(arr.length)
    ELSE IF name \in DOMAIN arr.props THEN arr.props[name]
    ELSE Undefined

\* inject([names..., fn]): the injector calls fn with the instances of the names,
\* in the order of the names.
Resolve(names) == [k \in 1..Len(names) |-> services[names[k]]]

\* The callback of injectify from argument i on (indices from 1): the array so far
\* and whether an assignment threw.
RECURSIVE InjectLoop(_, _, _, _)
InjectLoop(injectibles, arguments, i, arr) ==
    IF i > Len(arguments) THEN [how |-> "return", obj |-> arr]
    ELSE IF ArrayPutThrows(arr, injectibles[i], arguments[i])
         THEN [how |-> "throw", obj |-> arr]
         ELSE InjectLoop(injectibles, arguments, i + 1,
                         ArrayPut(arr, injectibles[i], arguments[i]))

\* injectify(injectibles): the names as handed over; the function is pushed after them.
injectify(injectibles) ==
    LET pushed == Append(injectibles, "function () {...}")
        arguments == Resolve(injectibles)
        r == InjectLoop(pushed, arguments, 1, EmptyArray)
    IN  [how |-> r.how, obj |-> r.obj, pushed |-> pushed]

\* getService(serviceName): injectify([serviceName])[serviceName]
getService(serviceName) ==
    LET r == injectify(<<serviceName>>) IN
    [how |-> r.how, value |-> IF r.how = "return" THEN ArrayGet(r.obj, serviceName)
                              ELSE Undefined]

Context(scope, controller) ==
    [typeof |-> "object", str |-> "", scope |-> scope, controller |-> controller]

\* A controller name handed to testScope in place of a context.
ContextName(name) ==
    [typeof |-> "string", str |-> name, scope |-> Undefined, controller |-> Undefined]

\* createTestContext(controller): a new scope, and the controller built on it.
createTestContext(controller) ==
    Context(controllers[controller].scope, controllers[controller].controller)

\* getController(controllerName)
getController(controllerName) == createTestContext(controllerName).controller

\* testScope(context, scopeSpec)
testScope(context, scopeSpec) ==
    LET ctx == IF context.typeof = "string" THEN createTestContext(context.str)
               ELSE context
    IN  looksLike(ctx.scope, scopeSpec)

\* testController(controller, spec)
testController(controller, sp) ==
    LET c == IF controller.typeof = "string" THEN getController(controller.str)
             ELSE controller
    IN  looksLike(c, sp)

\* testService(service, spec)
testService(service, sp) ==
    IF service.typeof = "string"
    THEN LET s == getService(service.str) IN
         IF s.how = "throw" THEN ThrowRangeError ELSE looksLike(s.value, sp)
    ELSE looksLike(service, sp)

-----------------------------------------------------------------------------
(* The calls a test makes. *)

NoContext == Context(Undefined, Undefined)

NoCall ==
    [fn |-> "", context |-> NoContext, arg |-> Undefined, names |-> <<>>,
     pushed |-> <<>>, outcome |-> NotCalled, obj |-> EmptyArray, value |-> Undefined]

Returned == [how |-> "return", name |-> "value", message |-> NoMessage]

\* A call that writes the expected type onto the first member it checks.
LooksLikeCallAssigning ==
    /\ calls < MaxCalls
    /\ calls' = calls + 1
    /\ ret' = looksLike(object, spec)
    /\ object' = IF object.typeof = "object" /\ spec # <<>>
                 THEN LET first == split(spec[1].properties)[1] IN
                      Obj([n \in DOMAIN object.members \cup {first} |->
                              IF n = first THEN spec[1].type ELSE object.members[n]])
                 ELSE object
    /\ UNCHANGED <<spec, services, controllers, last>>

\* looksLike(object, spec), as a test calls it; the count of calls is capped.
LooksLikeCall ==
    /\ calls < MaxCalls
    /\ calls' = calls + 1
    /\ ret' = looksLike(object, spec)
    /\ UNCHANGED <<object, spec, services, controllers, last>>

TestScope(context) ==
    /\ last' = [NoCall EXCEPT !.fn = "testScope", !.context = context,
                              !.outcome = testScope(context, spec)]
    /\ UNCHANGED <<object, spec, ret, calls, services, controllers>>

TestController(controller) ==
    /\ last' = [NoCall EXCEPT !.fn = "testController", !.arg = controller,
                              !.outcome = testController(controller, spec)]
    /\ UNCHANGED <<object, spec, ret, calls, services, controllers>>

TestService(service) ==
    /\ last' = [NoCall EXCEPT !.fn = "testService", !.arg = service,
                              !.outcome = testService(service, spec)]
    /\ UNCHANGED <<object, spec, ret, calls, services, controllers>>

Injectify(injectibles) ==
    /\ LET r == injectify(injectibles) IN
       last' = [NoCall EXCEPT !.fn = "injectify", !.names = injectibles,
                              !.pushed = r.pushed, !.obj = r.obj,
                              !.outcome = IF r.how = "throw" THEN ThrowRangeError
                                          ELSE Returned]
    /\ UNCHANGED <<object, spec, ret, calls, services, controllers>>

GetService(serviceName) ==
    /\ LET r == getService(serviceName) IN
       last' = [NoCall EXCEPT !.fn = "getService", !.names = <<serviceName>>,
                              !.value = r.value,
                              !.outcome = IF r.how = "throw" THEN ThrowRangeError
                                          ELSE Returned]
    /\ UNCHANGED <<object, spec, ret, calls, services, controllers>>

NameLists == UNION {[1..k -> ServiceNames] : k \in 0..MaxNames}

\* An injector with nothing the calls of this run ask for by name.
Init ==
    /\ object \in Subjects
    /\ spec \in Specs
    /\ ret = NotCalled
    /\ calls = 0
    /\ services = [n \in ServiceNames |-> Obj(NoMembers)]
    /\ controllers = [n \in ControllerNames |->
                         [scope |-> Obj(NoMembers), controller |-> Obj(NoMembers)]]
    /\ last = NoCall

\* looksLike on a subject, and an adapter handed the same subject in between.
Next ==
    \/ LooksLikeCall
    \/ TestService(object)

Spec == Init /\ [][Next]_vars

\* An injector with services and a controller; the adapters and helpers by name
\* and by value.
InitAdapters ==
    /\ object = Undefined
    /\ spec \in SpecsUpTo(MaxAdapterChars)
    /\ ret = NotCalled
    /\ calls = 0
    /\ services \in [ServiceNames -> Instances]
    /\ controllers \in [ControllerNames ->
                           [scope : ObjectsOver({<<"a">>}),
                            controller : ObjectsOver({<<"a">>})]]
    /\ last = NoCall

NextAdapters ==
    \/ \E n \in ControllerNames : TestScope(ContextName(n))
    \/ \E s \in AdapterSubjects : TestScope(Context(s, Obj(NoMembers)))
    \/ \E n \in ControllerNames : TestController(Str(n))
    \/ \E c \in AdapterSubjects : TestController(c)
    \/ \E n \in ServiceNames : TestService(Str(n))
    \/ \E s \in AdapterSubjects : TestService(s)
    \/ \E l \in NameLists : Injectify(l)
    \/ \E n \in ServiceNames : GetService(n)

SpecAdapters == InitAdapters /\ [][NextAdapters]_vars

-----------------------------------------------------------------------------
(* What the claims speak of, stated without the loops of looksLike. *)

Called == ret # NotCalled

IsObject == object.typeof = "object"

\* The (type, member name) pairs of a specification in nested order: types in
\* the order of the own property names, names in the order of each list.
RECURSIVE PairsFrom(_, _)
PairsFrom(sp, i) ==
    IF i > Len(sp) THEN <<>>
    ELSE LET properties == split(sp[i].properties) IN
         [y \in 1..Len(properties) |->
             [type |-> sp[i].type, name |-> properties[y], at |-> i]]
         \o PairsFrom(sp, i + 1)

Pairs == PairsFrom(spec, 1)

Missing(p) == p.name \notin DOMAIN object.members

\* The subject has the member and its typeof is the type the pair asks for.
Conforms(p) == ~Missing(p) /\ object.members[p.name] = p.type

\* The places of the pairs the subject violates.
ViolationsIn(ps) == {k \in 1..Len(ps) : ~Conforms(ps[k])}

First(V) == CHOOSE k \in V : \A j \in V : k <= j

MissingMember(m) ==
    [how |-> "return", name |-> "Error",
     message |-> [prefix |-> "Expected object to have the property '",
                  property |-> m, infix |-> "", type |-> "", suffix |-> "'."]]

WrongKind(m, kind) ==
    [how |-> "return", name |-> "Error",
     message |-> [prefix |-> "Expected property '", property |-> m,
                  infix |-> "' to be of type ", type |-> kind, suffix |-> "."]]

Pass == [how |-> "return", name |-> "undefined", message |-> NoMessage]

FailureOf(p) == IF Missing(p) THEN MissingMember(p.name) ELSE WrongKind(p.name, p.type)

IsMissingMember(r) == r = MissingMember(r.message.property)

IsWrongKind(r) == r = WrongKind(r.message.property, r.message.type)

-----------------------------------------------------------------------------
(* C1: looksLike(object, spec) on an object returns nothing exactly when every *)
(* member name of every type's list is a member of the object whose typeof is  *)
(* that type; in every other case it returns a failure value.                  *)
C1_PassIffEveryMemberConforms ==
    (Called /\ IsObject) =>
        LET ps == Pairs IN
        /\ (ret = Pass) <=> (\A k \in 1..Len(ps) : Conforms(ps[k]))
        /\ ret # Pass => (IsMissingMember(ret) \/ IsWrongKind(ret))

\* Scenario 4: two types, a member under each, and the call passes.
C1_Witness ==
    /\ Called /\ IsObject /\ ret = Pass
    /\ Len(spec) = 2
    /\ \E k1, k2 \in 1..Len(Pairs) :
          /\ Pairs[k1].at = 1 /\ Pairs[k2].at = 2
          /\ Pairs[k1].name # Pairs[k2].name
          /\ Pairs[k1].name # EmptyName /\ Pairs[k2].name # EmptyName

(* C2: looksLike is fail-fast: the result is the one failure of the first       *)
(* violating (type, member) pair in nested order, WrongKind naming the member   *)
(* and the expected type when that member exists; with a violation under a type *)
(* and another under a later type, the failure names the earlier type's member. *)
C2_FirstViolationOnly ==
    (Called /\ IsObject) =>
        LET ps == Pairs
            V == ViolationsIn(ps)
            p == ps[First(V)]
        IN  V # {} =>
                /\ ret = FailureOf(p)
                /\ ~Missing(p) => ret = WrongKind(p.name, p.type)
                /\ ret.message.property = p.name
                /\ \A k \in V :
                      (ps[k].at > p.at /\ ps[k].name # p.name) => ret # FailureOf(ps[k])

\* A member of the wrong kind under the first type, another violation under the second.
C2_Witness ==
    /\ Called /\ IsObject
    /\ \E k1, k2 \in ViolationsIn(Pairs) :
          /\ Pairs[k1].at = 1 /\ Pairs[k2].at = 2
          /\ Pairs[k1].name # Pairs[k2].name
          /\ k1 = First(ViolationsIn(Pairs))
          /\ ~Missing(Pairs[k1])
          /\ ret = WrongKind(Pairs[k1].name, Pairs[k1].type)

(* C3, as claimed: a subject missing a member the specification requires gets a *)
(* MissingMember failure naming a missing member, whatever the other members.   *)
C3_AsClaimed ==
    (Called /\ IsObject) =>
        LET ps == Pairs IN
        (\E k \in 1..Len(ps) : Missing(ps[k])) =>
            \E k \in 1..Len(ps) : Missing(ps[k]) /\ ret = MissingMember(ps[k].name)

(* C3, amended: a subject missing a required member m, with no pair declared    *)
(* before m's violated, gets a MissingMember failure naming m, whatever the     *)
(* members declared after it.                                                   *)
C3_MissingMemberWhenFirst ==
    (Called /\ IsObject) =>
        LET ps == Pairs
            V == ViolationsIn(ps)
        IN  (V # {} /\ Missing(ps[First(V)])) => ret = MissingMember(ps[First(V)].name)

\* The first violation is a missing member and a later member has the wrong kind.
C3_Witness ==
    /\ Called /\ IsObject
    /\ LET ps == Pairs
           V == ViolationsIn(ps)
       IN  /\ V # {}
           /\ Missing(ps[First(V)])
           /\ ps[First(V)].name # EmptyName
           /\ \E k \in V : k > First(V) /\ ~Missing(ps[k])
           /\ ret = MissingMember(ps[First(V)].name)

(* C4: a specification with no member entry, the empty specification in        *)
(* particular, passes for any subject.                                         *)
C4_NoEntriesPass ==
    (Called /\ (spec = <<>> \/ Len(Pairs) = 0)) => ret = Pass

\* The empty specification against a subject that is not an object.
C4_Witness == Called /\ spec = <<>> /\ ~IsObject /\ ret = Pass

(* C5, as claimed: for every subject and every specification looksLike returns *)
(* and never throws.                                                           *)
C5_AsClaimed == Called => ret.how = "return"

(* C5, amended: for every subject that is an object, looksLike returns: nothing, *)
(* a MissingMember or a WrongKind failure, never a thrown error; for a subject  *)
(* that is not an object and a specification with an entry it throws TypeError. *)
C5_ReturnsOnObjects ==
    Called =>
        /\ IsObject =>
              /\ ret.how = "return"
              /\ ret = Pass \/ IsMissingMember(ret) \/ IsWrongKind(ret)
        /\ (~IsObject /\ spec # <<>>) => ret = ThrowTypeError

\* A failure handed back as a value.
C5_Witness == Called /\ IsObject /\ IsMissingMember(ret)

C7_AsClaimed ==
    /\ last.fn = "testScope" =>
          last.outcome =
              looksLike(IF last.context.typeof = "string"
                        THEN controllers[last.context.str].scope
                        ELSE last.context.scope, spec)
    /\ last.fn = "testController" =>
          last.outcome =
              looksLike(IF last.arg.typeof = "string"
                        THEN controllers[last.arg.str].controller
                        ELSE last.arg, spec)
    /\ last.fn = "testService" =>
          last.outcome =
              looksLike(IF last.arg.typeof = "string"
                        THEN services[last.arg.str]
                        ELSE last.arg, spec)

(* C8, as claimed: injectify(names) returns an object that has, for every       *)
(* position i of the names, a property named names[i] whose value is the i-th  *)
(* instance the injector resolved; getService(name) returns the instance       *)
(* resolved for that name.                                                     *)
C8_AsClaimed ==
    /\ last.fn = "injectify" =>
          /\ last.outcome.how = "return"
          /\ \A i \in 1..Len(last.names) :
                /\ ArrayHas(last.obj, last.names[i])
                /\ ArrayGet(last.obj, last.names[i]) = Resolve(last.names)[i]
    /\ last.fn = "getService" =>
          /\ last.outcome.how = "return"
          /\ last.value = services[last.names[1]]

-----------------------------------------------------------------------------
(* The member lists of the specification mini-language. *)

SpacesIn(s) == Cardinality({i \in 1..Len(s) : s[i] = Space})

RECURSIVE JoinWithSpace(_)
JoinWithSpace(pieces) ==
    IF Len(pieces) = 0 THEN <<>>
    ELSE IF Len(pieces) = 1 THEN pieces[1]
    ELSE pieces[1] \o <<Space>> \o JoinWithSpace(Tail(pieces))

\* An empty string, a leading or a trailing space, or two spaces in a row.
HasEmptyStretch(s) ==
    \/ s = <<>>
    \/ s[1] = Space
    \/ s[Len(s)] = Space
    \/ \E i \in 1..(Len(s) - 1) : s[i] = Space /\ s[i + 1] = Space

EmptyNamesIn(ps) == {k \in 1..Len(ps) : ps[k].name = EmptyName}

(* C9, as claimed: an empty-name entry makes the call return a MissingMember   *)
(* failure naming the empty name unless the subject has a member with the      *)
(* empty name of the expected kind.                                            *)
C9_AsClaimed ==
    (Called /\ IsObject) =>
        LET ps == Pairs IN
        (\E k \in EmptyNamesIn(ps) : ~Conforms(ps[k])) => ret = MissingMember(EmptyName)

(* C9, amended: a member list is cut at every single space, so that an empty   *)
(* list, a leading or trailing space and two spaces in a row each give an      *)
(* empty name; the empty name is checked like any other: when no pair before   *)
(* it is violated the call returns MissingMember naming the empty name if the  *)
(* subject lacks it and WrongKind naming it if the subject has it with another *)
(* kind, and the call passes only if every empty-name entry finds a member     *)
(* with the empty name of the expected kind.                                   *)
C9_SingleSpaceSplit ==
    LET ps == Pairs
        V == ViolationsIn(ps)
    IN  /\ \A i \in 1..Len(spec) :
              LET s == spec[i].properties
                  pieces == split(s)
              IN  /\ Len(pieces) = SpacesIn(s) + 1
                  /\ \A y \in 1..Len(pieces) :
                        \A c \in 1..Len(pieces[y]) : pieces[y][c] # Space
                  /\ JoinWithSpace(pieces) = s
                  /\ HasEmptyStretch(s) <=> (\E y \in 1..Len(pieces) : pieces[y] = EmptyName)
                  /\ \A y \in 1..Len(pieces) :
                        \E k \in 1..Len(ps) : ps[k].at = i /\ ps[k].name = pieces[y]
        /\ (Called /\ IsObject /\ V # {} /\ First(V) \in EmptyNamesIn(ps)) =>
              ret = IF EmptyName \notin DOMAIN object.members
                    THEN MissingMember(EmptyName)
                    ELSE WrongKind(EmptyName, ps[First(V)].type)
        /\ (Called /\ ret = Pass) => \A k \in EmptyNamesIn(ps) : Conforms(ps[k])

\* Two spaces in a row after a member the subject has: the empty name is missed.
C9_Witness ==
    /\ Called /\ IsObject
    /\ ret = MissingMember(EmptyName)
    /\ <<"a">> \in DOMAIN object.members
    /\ \E i \in 1..Len(spec) :
          LET s == spec[i].properties IN
          /\ Len(s) > 2
          /\ s[1] = "a" /\ s[2] = Space /\ s[3] = Space

-----------------------------------------------------------------------------
(* A member name listed under two types. *)

ListedTwiceIn(ps) ==
    {n \in {ps[k].name : k \in 1..Len(ps)} :
        \E k1, k2 \in 1..Len(ps) :
            ps[k1].name = n /\ ps[k2].name = n /\ ps[k1].type # ps[k2].type}

\* The call returned the failure of a violated pair at or before pair k.
FailsNoLaterThan(ps, k) ==
    \E j \in ViolationsIn(ps) : j <= k /\ ret = FailureOf(ps[j])

(* C10, as claimed: with a member name listed under two types the call never   *)
(* passes; it returns MissingMember when the subject lacks the name, and       *)
(* otherwise a failure no later than the WrongKind failure of the listing      *)
(* whose type the member's typeof does not equal.                              *)
C10_AsClaimed ==
    Called =>
        LET ps == Pairs
            twice == ListedTwiceIn(ps)
        IN  twice # {} =>
                /\ ret # Pass
                /\ IsObject =>
                      \A n \in twice :
                          /\ n \notin DOMAIN object.members => IsMissingMember(ret)
                          /\ n \in DOMAIN object.members =>
                                \A k \in 1..Len(ps) :
                                    (ps[k].name = n /\ ~Conforms(ps[k]))
                                        => FailsNoLaterThan(ps, k)

(* C10, amended: with a member name listed under two types the call never      *)
(* passes; it returns a failure no later than the MissingMember failure of the *)
(* name's first listing when the subject lacks the name, and otherwise one no  *)
(* later than the WrongKind failure of the listing whose type the member's     *)
(* typeof does not equal.                                                      *)
C10_ListedTwiceNeverPasses ==
    Called =>
        LET ps == Pairs
            twice == ListedTwiceIn(ps)
        IN  twice # {} =>
                /\ ret # Pass
                /\ IsObject =>
                      \A n \in twice :
                          \A k \in 1..Len(ps) :
                              (ps[k].name = n /\ ~Conforms(ps[k]))
                                  => FailsNoLaterThan(ps, k)

\* The subject has the name with the first listing's type: the second listing fails.
C10_Witness ==
    /\ Called /\ IsObject
    /\ LET ps == Pairs IN
       \E n \in ListedTwiceIn(ps) :
          /\ n # EmptyName
          /\ n \in DOMAIN object.members
          /\ \E k \in 1..Len(ps) :
                /\ ps[k].name = n
                /\ ps[k].at = 2
                /\ k = First(ViolationsIn(ps))
                /\ ret = WrongKind(n, ps[k].type)

=============================================================================
